---------------------------- MODULE Spec2Model ----------------------------
(***************************************************************************)
(* Model of src/server.js: the Stremio stream endpoint                     *)
(*   GET /stream/:type/:id/:config.json                                    *)
(* and its helpers getTitleFromImdbId, scrapeBitsearch,                    *)
(* checkRealDebridCache and addNonCachedTorrentToRealDebrid.               *)
(*                                                                         *)
(* Strings are sequences of tokens.  A token is one character, except for  *)
(* the few fixed multi-character pieces the code treats as a unit          *)
(* ("magnet:", "xt=urn:btih:", "RD Cached: ", ...).  The hash alphabet     *)
(* AlNum shares no character with those pieces.                            *)
(*                                                                         *)
(* One action is one run of JavaScript between two suspension points:      *)
(* an external call is issued at the end of an action and its answer       *)
(* (drawn from the possible outcomes) starts the next one.                 *)
(***************************************************************************)
EXTENDS Naturals, Sequences, FiniteSets

VARIABLES
    pc,             \* position of the request (which await it is suspended at)
    req,            \* req.params: type, id, config
    cfg,            \* the decoded configuration (line 92-93)
    movieTitle,     \* handler local movieTitle / seriesTitle, lines 104 and 107
    searchQuery,    \* handler local, line 102
    magnets,        \* handler local, line 114 (scrapeBitsearch's result)
    hashes,         \* checkRealDebridCache local, line 223
    data,           \* checkRealDebridCache local, line 239, as the list of its own keys in for-in order
    idx,            \* position of the for-in loop of line 241 in data
    streams,        \* checkRealDebridCache local, line 220
    hStreams,       \* handler local `streams`, line 124
    torrentId,      \* addNonCachedTorrentToRealDebrid local, line 284
    fallbackStream, \* handler local, line 134
    response,       \* what res.json / res.status(500).json sent
    page,           \* what the index answered to the search (response.data, line 185)
    calls,          \* the external calls issued so far, in order
    answers,        \* how they settled: answers[i] is the outcome of calls[i]
    events,         \* which of the two debrid helpers were entered and have settled
    other           \* the locals of a second request in flight, while the first one runs

vars == <<pc, req, cfg, movieTitle, searchQuery, magnets, hashes, data, idx, streams,
          hStreams, torrentId, fallbackStream, response, page, calls, answers, events, other>>

----------------------------------------------------------------------------
(* Bounds of the model *)

\* rows of the search result page
MaxRows == 2

\* hashes in the answer of the batch availability query
MaxReported == 2

----------------------------------------------------------------------------
(* JavaScript strings *)

\* [a-zA-Z0-9] of the regular expression of line 224, restricted to the model's alphabet
AlNum == {"a", "b", "c", "A", "B", "k", "T", "J", "0", "1", "2"}

\* String.prototype.includes
Includes(s, sub) ==
    \E i \in 0..Len(s) : i + Len(sub) <= Len(s) /\ SubSeq(s, i + 1, i + Len(sub)) = sub

LowerChar(ch) ==
    CASE ch = "A" -> "a"
      [] ch = "B" -> "b"
      [] ch = "T" -> "t"
      [] ch = "J" -> "j"
      [] OTHER -> ch

\* String.prototype.toLowerCase
ToLowerCase(s) == [i \in 1..Len(s) |-> LowerChar(s[i])]

RECURSIVE TrimStart(_)
TrimStart(s) == IF s # <<>> /\ Head(s) = " " THEN TrimStart(Tail(s)) ELSE s

RECURSIVE TrimEnd(_)
TrimEnd(s) == IF s # <<>> /\ s[Len(s)] = " " THEN TrimEnd(SubSeq(s, 1, Len(s) - 1)) ELSE s

\* String.prototype.trim
Trim(s) == TrimEnd(TrimStart(s))

RECURSIVE SplitAcc(_, _, _)
SplitAcc(s, sep, cur) ==
    IF s = <<>> THEN <<cur>>
    ELSE IF Head(s) = sep THEN <<cur>> \o SplitAcc(Tail(s), sep, <<>>)
    ELSE SplitAcc(Tail(s), sep, Append(cur, Head(s)))

\* String.prototype.split with a one-character separator
Split(s, sep) == SplitAcc(s, sep, <<>>)

RECURSIVE PadStart(_, _, _)
\* String.prototype.padStart with a one-character filler
PadStart(s, n, ch) == IF Len(s) >= n THEN s ELSE PadStart(<<ch>> \o s, n, ch)

----------------------------------------------------------------------------
(* JSON values of the configuration *)

\* every value carries all fields, so that any two can be compared
Undef == [t |-> "undefined", s |-> <<>>, b |-> FALSE, n |-> 0]
Str(x) == [t |-> "string", s |-> x, b |-> FALSE, n |-> 0]
Bool(x) == [t |-> "boolean", s |-> <<>>, b |-> x, n |-> 0]
Num(x) == [t |-> "number", s |-> <<>>, b |-> FALSE, n |-> x]

\* JavaScript truthiness, as used by `!x` and `x ? a : b`
Truthy(x) ==
    CASE x.t = "undefined" -> FALSE
      [] x.t = "string" -> x.s # <<>>
      [] x.t = "boolean" -> x.b
      [] x.t = "number" -> x.n # 0

\* all sequences over S of length at most n
SeqsUpTo(S, n) == UNION {[1..k -> S] : k \in 0..n}

----------------------------------------------------------------------------
(* The request: type, id and the configuration carried in the URL *)

Types == {"movie", "series", "tv"}

\* ids as Stremio sends them: "tt1" for a movie, "tt1:1:2" for an episode
Ids == { <<"tt1">>, <<"tt1", ":", "1", ":", "2">> }

NoPrefs == [realdebridKey |-> Undef, quality |-> Undef, codec |-> Undef,
            audio |-> Undef, fallback |-> Undef, exclude |-> Undef]

\* { "realdebridKey": k, "fallback": f, "quality": q, "exclude": e }
Obj(k, f, q, e) ==
    [json |-> "object",
     o |-> [NoPrefs EXCEPT !.realdebridKey = k, !.fallback = f, !.quality = q, !.exclude = e]]

\* The :config parameter, named by the text Buffer.from(.., 'base64').toString('utf-8')
\* gives for it: text that is no JSON, the JSON texts `null` and `7`, and JSON objects.
\* (The route never matches an empty :config, so line 87 never returns.)
Configs ==
    { [json |-> "invalid", o |-> NoPrefs], [json |-> "null", o |-> NoPrefs],
      [json |-> "scalar", o |-> NoPrefs],
      Obj(Undef, Str(<<"true">>), Undef, Undef),
      Obj(Str(<<>>), Bool(TRUE), Undef, Undef),
      Obj(Str(<<"k">>), Undef, Undef, Undef),
      Obj(Str(<<"k">>), Str(<<"true">>), Str(<<"B">>), Undef),
      Obj(Str(<<"k">>), Bool(TRUE), Undef, Undef),
      Obj(Str(<<"k">>), Str(<<"false">>), Undef, Str(<<"b">>)),
      Obj(Str(<<"k">>), Bool(FALSE), Num(1080), Undef) }

\* line 92: JSON.parse throws on text that is no JSON; line 93: destructuring null throws
ConfigThrows(c) == c.json \in {"invalid", "null"}

\* line 93: the six properties read off the parsed value (undefined on a scalar)
Destructure(c) == IF c.json = "object" THEN c.o ELSE NoPrefs

\* line 95 written as `realdebridKey === undefined`: an empty key passes
HasCredentialDefined(cf) == cf.realdebridKey.t # "undefined"

\* line 95
HasCredential(cf) == Truthy(cf.realdebridKey)

\* line 132 written as `if (fallback)`: the string 'false' passes
FallbackEnabledTruthy(cf) == Truthy(cf.fallback)

\* line 132: fallback === 'true' || fallback === true
FallbackEnabled(cf) ==
    \/ cf.fallback.t = "string" /\ cf.fallback.s = <<"true">>
    \/ cf.fallback.t = "boolean" /\ cf.fallback.b

\* line 99: the k-th element of the destructured id.split(':'), "" standing for undefined
\* (both are falsy at line 106)
IdPart(id, k) == LET parts == Split(id, ":") IN IF k <= Len(parts) THEN parts[k] ELSE <<>>

\* line 106 written as `type === 'series' && season`: the episode is not looked at
NeedsTitleSeasonOnly(type, id) ==
    \/ type = "movie"
    \/ type = "series" /\ IdPart(id, 2) # <<>>

\* lines 103 and 106: whether the handler looks the title up at all
NeedsTitle(type, id) ==
    \/ type = "movie"
    \/ type = "series" /\ IdPart(id, 2) # <<>> /\ IdPart(id, 3) # <<>>

\* line 108 written without the two padStart calls
BuildQueryNoPad(type, id, title) ==
    IF type = "movie" THEN title
    ELSE title \o <<" ", "S">> \o IdPart(id, 2) \o <<"E">> \o IdPart(id, 3)

\* lines 105 and 108
BuildQuery(type, id, title) ==
    IF type = "movie" THEN title
    ELSE title \o <<" ", "S">> \o PadStart(IdPart(id, 2), 2, "0")
               \o <<"E">> \o PadStart(IdPart(id, 3), 2, "0")

----------------------------------------------------------------------------
(* getTitleFromImdbId, lines 157-169 *)

\* what the metadata service can answer: a failure, a document without meta.name, a name
MetaOutcomes ==
    { [ok |-> FALSE, name |-> Undef], [ok |-> TRUE, name |-> Undef],
      [ok |-> TRUE, name |-> Str(<<"T">>)] }

\* lines 161-168, once axios.get has settled with outcome o
getTitleFromImdbId(o) ==
    IF ~o.ok THEN <<>>
    ELSE IF Truthy(o.name) THEN o.name.s ELSE <<>>

----------------------------------------------------------------------------
(* scrapeBitsearch, lines 172-215 *)

MagnetScheme == <<"magnet:", "?">>
Btih == "xt=urn:btih:"

\* the magnet links of the result page: one whose dn= holds the other's hash, a plain
\* one, and one without an xt=urn:btih: parameter
MagABdnC == MagnetScheme \o <<Btih, "a", "b", "&", "dn=", "c">>
MagC == MagnetScheme \o <<Btih, "c">>
MagNoHash == MagnetScheme \o <<"dn=", "c">>

Anchor(text, href) == [text |-> text, href |-> href]

\* table rows, each the anchors of the row in document order: a row without a magnet
\* link, and three rows with one
Rows ==
    { <<Anchor(<<"A", "b">>, <<"http:", "x">>)>>,
      <<Anchor(<<" ", "A", "b">>, <<"http:", "x">>), Anchor(<<>>, MagABdnC)>>,
      <<Anchor(<<"c", " ">>, MagC)>>,
      <<Anchor(<<"B", "c">>, <<"http:", "x">>), Anchor(<<>>, MagNoHash)>> }

\* what the index can answer: a failure, or a page of rows
SearchOutcomes ==
    {[ok |-> FALSE, rows |-> <<>>]} \cup {[ok |-> TRUE, rows |-> r] : r \in SeqsUpTo(Rows, MaxRows)}

\* line 192: $(element).find('td a').first().text().trim()
RowTitle(row) == IF row = <<>> THEN <<>> ELSE Trim(row[1].text)

\* a[href^="magnet:"]
IsMagnetHref(href) == href # <<>> /\ href[1] = "magnet:"

\* line 193: the href of the first anchor matching a[href^="magnet:"], <<>> for undefined
RowMagnet(row) ==
    LET hits == {i \in 1..Len(row) : IsMagnetHref(row[i].href)}
    IN IF hits = {} THEN <<>>
       ELSE row[CHOOSE i \in hits : \A j \in hits : i <= j].href

\* lines 186-189: x ? x.split(',').map(q => q.toLowerCase().trim()) : []
TermList(pref) ==
    IF Truthy(pref)
    THEN LET parts == Split(pref.s, ",")
         IN [i \in 1..Len(parts) |-> Trim(ToLowerCase(parts[i]))]
    ELSE <<>>

\* lines 186-189 throw a TypeError when a truthy preference has no split method
TermListThrows(pref) == Truthy(pref) /\ pref.t # "string"

\* list.some(q => titleLower.includes(q))
SomeIncluded(list, titleLower) == \E i \in 1..Len(list) : Includes(titleLower, list[i])

\* lines 199-204 without the exclude test of line 204
RowAcceptedNoExclude(title, qualityList, codecList, audioList, excludeList) ==
    LET titleLower == ToLowerCase(title)
    IN /\ Len(qualityList) = 0 \/ SomeIncluded(qualityList, titleLower)
       /\ Len(codecList) = 0 \/ SomeIncluded(codecList, titleLower)
       /\ Len(audioList) = 0 \/ SomeIncluded(audioList, titleLower)

\* lines 199-204
RowAccepted(title, qualityList, codecList, audioList, excludeList) ==
    LET titleLower == ToLowerCase(title)
        matchesQuality == Len(qualityList) = 0 \/ SomeIncluded(qualityList, titleLower)
        matchesCodec == Len(codecList) = 0 \/ SomeIncluded(codecList, titleLower)
        matchesAudio == Len(audioList) = 0 \/ SomeIncluded(audioList, titleLower)
        matchesExclude == SomeIncluded(excludeList, titleLower)
    IN matchesQuality /\ matchesCodec /\ matchesAudio /\ ~matchesExclude

RECURSIVE EachRow(_, _, _, _, _, _)
\* lines 191-208: the .each loop, pushing onto acc
EachRow(rows, acc, ql, cl, al, el) ==
    IF rows = <<>> THEN acc
    ELSE LET row == Head(rows)
             title == RowTitle(row)
             magnetLink == RowMagnet(row)
         IN EachRow(Tail(rows),
                    IF magnetLink # <<>> /\ RowAccepted(title, ql, cl, al, el)
                    THEN Append(acc, [title |-> title, magnet |-> magnetLink])
                    ELSE acc,
                    ql, cl, al, el)

\* lines 210-214: the catch block logs and falls through to `return magnets`
scrapeCatch(acc) == [threw |-> FALSE, value |-> acc]

\* lines 185-214, once axios.get has settled with outcome o
scrapeBitsearch(o, preferredQuality, preferredCodec, preferredAudio, excludeKeywords) ==
    IF ~o.ok THEN scrapeCatch(<<>>)
    ELSE IF \/ TermListThrows(preferredQuality) \/ TermListThrows(preferredCodec)
            \/ TermListThrows(preferredAudio) \/ TermListThrows(excludeKeywords)
    THEN scrapeCatch(<<>>)
    ELSE [threw |-> FALSE,
          value |-> EachRow(o.rows, <<>>, TermList(preferredQuality), TermList(preferredCodec),
                            TermList(preferredAudio), TermList(excludeKeywords))]

----------------------------------------------------------------------------
(* checkRealDebridCache, lines 219-267 *)

RECURSIVE AlNumRun(_, _)
\* the longest run of [a-zA-Z0-9] in s from position i on
AlNumRun(s, i) ==
    IF i <= Len(s) /\ s[i] \in AlNum THEN <<s[i]>> \o AlNumRun(s, i + 1) ELSE <<>>

\* line 224-225: magnet.match(/xt=urn:btih:([a-zA-Z0-9]+)/), group 1 of the leftmost
\* match, <<>> for null
ExtractHash(magnet) ==
    LET hits == {i \in 1..Len(magnet) : magnet[i] = Btih /\ AlNumRun(magnet, i + 1) # <<>>}
    IN IF hits = {} THEN <<>>
       ELSE AlNumRun(magnet, 1 + CHOOSE i \in hits : \A j \in hits : i <= j)

\* lines 223-226 without the .filter(hash => hash): a null stays in the list
ExtractHashesNoFilter(mags) == [i \in 1..Len(mags) |-> ExtractHash(mags[i].magnet)]

RECURSIVE ExtractHashes(_)
\* lines 223-226: map, then filter(hash => hash)
ExtractHashes(mags) ==
    IF mags = <<>> THEN <<>>
    ELSE LET hash == ExtractHash(Head(mags).magnet)
         IN (IF hash # <<>> THEN <<hash>> ELSE <<>>) \o ExtractHashes(Tail(mags))

RECURSIVE Join(_, _)
\* Array.prototype.join
Join(list, sep) ==
    IF list = <<>> THEN <<>>
    ELSE IF Len(list) = 1 THEN list[1]
    ELSE list[1] \o <<sep>> \o Join(Tail(list), sep)

\* the hashes the service may report: those of the page's magnets
ReportedHashes == { <<"a", "b">>, <<"c">> }

\* data[hash]: "cached" is { rd: [{ link }] }, "empty" is { rd: [] } or [], "null" is null
EntryKinds == {"cached", "empty", "null"}

Entries == {[hash |-> h, kind |-> k, link |-> <<"rdlink:">> \o h] : h \in ReportedHashes, k \in EntryKinds}

\* what the availability endpoint can answer: a failure, or an object with one key per
\* reported hash; entries lists the keys in for-in order, which for keys that are no
\* array indices (no hash here is all digits) is the order the service wrote them in
BatchOutcomes ==
    {[ok |-> FALSE, entries |-> <<>>]} \cup
    {[ok |-> TRUE, entries |-> e] : e \in
        {x \in SeqsUpTo(Entries, MaxReported) :
            \A i, j \in 1..Len(x) : x[i].hash = x[j].hash => i = j}}

\* what the unrestrict endpoint can answer for a link: a failure, a response without
\* data, or the direct URL of that link
ResolveOutcomes(link) ==
    { [ok |-> FALSE, hasData |-> FALSE, download |-> <<>>],
      [ok |-> TRUE, hasData |-> FALSE, download |-> <<>>],
      [ok |-> TRUE, hasData |-> TRUE, download |-> <<"https:">> \o link] }

\* line 241 written as a loop over the keys in reverse order
NextStopLast(entries, from) ==
    LET stops == {j \in from..Len(entries) : entries[j].kind \in {"cached", "null"}}
    IN IF stops = {} THEN 0 ELSE CHOOSE j \in stops : \A k \in stops : j >= k

\* lines 241-243: the for-in loop skips entries whose .rd is missing or empty;
\* the first position from `from` on where the loop body does more than skip:
\* a cached entry (line 247 is reached) or a null one (line 243 throws); 0 if none
NextStop(entries, from) ==
    LET stops == {j \in from..Len(entries) : entries[j].kind \in {"cached", "null"}}
    IN IF stops = {} THEN 0 ELSE CHOOSE j \in stops : \A k \in stops : j <= k

\* line 253: magnets.find(m => m.magnet.includes(hash)), as an index, 0 for undefined
FindMagnet(mags, hash) ==
    LET hits == {i \in 1..Len(mags) : Includes(mags[i].magnet, hash)}
    IN IF hits = {} THEN 0 ELSE CHOOSE i \in hits : \A j \in hits : i <= j

CachedPrefix == <<"RD Cached: ">>

\* lines 255-258
CachedStream(magnet, download) == [title |-> CachedPrefix \o magnet.title, url |-> download]

\* lines 262-266 with a catch block that throws again
cacheCatchRethrow(acc) == [threw |-> TRUE, value |-> acc]

\* lines 262-266: the catch block logs and falls through to `return streams`
cacheCatch(acc) == [threw |-> FALSE, value |-> acc]

----------------------------------------------------------------------------
(* addNonCachedTorrentToRealDebrid, lines 270-308 *)

\* what addMagnet can answer: a failure, a response without data, a response without
\* an id, or a job id
AddOutcomes ==
    { [ok |-> FALSE, hasData |-> FALSE, id |-> Undef],
      [ok |-> TRUE, hasData |-> FALSE, id |-> Undef],
      [ok |-> TRUE, hasData |-> TRUE, id |-> Undef],
      [ok |-> TRUE, hasData |-> TRUE, id |-> Str(<<"J", "1">>)] }

SelectOutcomes == { [ok |-> FALSE], [ok |-> TRUE] }

DownloadingPrefix == <<"[RD - Downloading]: ">>

\* lines 299-302
PlaceholderStream(torrentToAdd, id) ==
    [title |-> DownloadingPrefix \o torrentToAdd.title, url |-> MagnetScheme \o <<Btih>> \o id]

\* lines 304-307 with a catch block that throws again
fallbackCatchRethrow == [threw |-> TRUE, value |-> <<>>]

\* lines 304-307: the catch block logs and returns null (<<>>)
fallbackCatch == [threw |-> FALSE, value |-> <<>>]

----------------------------------------------------------------------------
(* The stream handler, lines 82-148, and the state machine *)

NoRequest == [type |-> "", id |-> <<>>, config |-> [json |-> "none", o |-> NoPrefs]]

NoResponse ==
    [sent |-> FALSE, status |-> 0, hasStreams |-> FALSE, streams |-> <<>>, error |-> <<>>]

\* res.json({ streams: s }) and res.json({ streams: s, error: e })
StreamsResponse(s, e) ==
    [sent |-> TRUE, status |-> 200, hasStreams |-> TRUE, streams |-> s, error |-> e]

\* lines 144-147: res.status(500).json({ error: 'Internal Server Error' })
InternalError ==
    [sent |-> TRUE, status |-> 500, hasStreams |-> FALSE, streams |-> <<>>,
     error |-> <<"Internal Server Error">>]

Call(svc, arg) == [svc |-> svc, arg |-> arg]

\* line 116 written as `magnets.length < 0`
NoMagnetsNever(mags) == Len(mags) < 0

\* line 116
NoMagnets(mags) == Len(mags) = 0

\* the locals of a request that has not been received yet
Fresh ==
    [pc |-> "idle", req |-> NoRequest, cfg |-> NoPrefs, movieTitle |-> <<>>,
     searchQuery |-> <<>>, magnets |-> <<>>, hashes |-> <<>>, data |-> <<>>, idx |-> 0,
     streams |-> <<>>, hStreams |-> <<>>, torrentId |-> <<>>, fallbackStream |-> <<>>,
     response |-> NoResponse, page |-> <<>>, calls |-> <<>>, answers |-> <<>>,
     events |-> {}]

Init ==
    /\ pc = "idle"
    /\ req = NoRequest
    /\ cfg = NoPrefs
    /\ movieTitle = <<>>
    /\ searchQuery = <<>>
    /\ magnets = <<>>
    /\ hashes = <<>>
    /\ data = <<>>
    /\ idx = 0
    /\ streams = <<>>
    /\ hStreams = <<>>
    /\ torrentId = <<>>
    /\ fallbackStream = <<>>
    /\ response = NoResponse
    /\ page = <<>>
    /\ calls = <<>>
    /\ answers = <<>>
    /\ events = {}
    /\ other = Fresh

\* lines 84-111, and getTitleFromImdbId up to its await (lines 158-160)
Request(t, i, c) ==
    /\ pc = "idle"
    /\ req' = [type |-> t, id |-> i, config |-> c]
    /\ UNCHANGED <<other, movieTitle, searchQuery, magnets, hashes, data, idx, streams, hStreams,
                   torrentId, fallbackStream, page, answers, events>>
    /\ IF ConfigThrows(c)
       THEN /\ response' = InternalError
            /\ pc' = "done"
            /\ UNCHANGED <<cfg, calls>>
       ELSE /\ cfg' = Destructure(c)
            /\ IF ~HasCredential(Destructure(c))
               THEN /\ response' = StreamsResponse(<<>>, <<"Real-Debrid API key not provided in settings.">>)
                    /\ pc' = "done"
                    /\ calls' = calls
               ELSE IF NeedsTitle(t, i)
               THEN /\ calls' = Append(calls, Call("cinemeta", IdPart(i, 1)))
                    /\ pc' = "await_meta"
                    /\ response' = response
               ELSE /\ response' = StreamsResponse(<<>>, <<>>)
                    /\ pc' = "done"
                    /\ calls' = calls

\* scrapeBitsearch up to its await, lines 173-180 (encodeURIComponent is one-to-one:
\* the call is named by the query itself)
ScrapeEntry(query) ==
    /\ calls' = Append(calls, Call("bitsearch", query))
    /\ pc' = "await_search"

\* getTitleFromImdbId settles (lines 160-168); the handler goes on to line 114
MetaReturn(o) ==
    /\ pc = "await_meta"
    /\ answers' = Append(answers, o)
    /\ movieTitle' = getTitleFromImdbId(o)
    /\ searchQuery' = BuildQuery(req.type, req.id, getTitleFromImdbId(o))
    /\ ScrapeEntry(BuildQuery(req.type, req.id, getTitleFromImdbId(o)))
    /\ UNCHANGED <<other, req, cfg, magnets, hashes, data, idx, streams, hStreams,
                   torrentId, fallbackStream, response, page, events>>

\* scrapeBitsearch settles, lines 185-214; a rejection would reach line 144
SearchReturn(o) ==
    /\ pc = "await_search"
    /\ answers' = Append(answers, o)
    /\ page' = o.rows
    /\ LET r == scrapeBitsearch(o, cfg.quality, cfg.codec, cfg.audio, cfg.exclude)
       IN IF r.threw
          THEN response' = InternalError /\ pc' = "done" /\ magnets' = magnets
          ELSE response' = response /\ pc' = "ret_scrape" /\ magnets' = r.value
    /\ UNCHANGED <<other, req, cfg, movieTitle, searchQuery, hashes, data, idx, streams, hStreams,
                   torrentId, fallbackStream, calls, events>>

\* checkRealDebridCache settles with r; a rejection would reach line 144
CacheSettles(r, tags) ==
    /\ IF r.threw
       THEN response' = InternalError /\ pc' = "done" /\ hStreams' = hStreams
       ELSE response' = response /\ pc' = "ret_cache" /\ hStreams' = r.value
    /\ events' = events \cup tags \cup {"ret_cache"}

\* lines 116-124, and checkRealDebridCache up to its await (lines 220-237)
AfterScrape ==
    /\ pc = "ret_scrape"
    /\ UNCHANGED <<other, req, cfg, movieTitle, searchQuery, magnets, data, idx, streams,
                   torrentId, fallbackStream, page, answers>>
    /\ IF NoMagnets(magnets)
       THEN /\ response' = StreamsResponse(<<>>, <<>>)
            /\ pc' = "done"
            /\ UNCHANGED <<hashes, hStreams, calls, events>>
       ELSE /\ hashes' = ExtractHashes(magnets)
            /\ IF Len(ExtractHashes(magnets)) = 0
               THEN /\ CacheSettles([threw |-> FALSE, value |-> <<>>], {"enter_cache"})
                    /\ calls' = calls
               ELSE /\ calls' = Append(calls, Call("instantAvailability", Join(ExtractHashes(magnets), "/")))
                    /\ pc' = "await_batch"
                    /\ events' = events \cup {"enter_cache"}
                    /\ UNCHANGED <<hStreams, response>>

\* lines 241-261: the for-in loop over entries from position `from`, with acc collected
CacheLoop(entries, from, acc) ==
    LET j == NextStop(entries, from)
    IN IF j = 0
       THEN /\ CacheSettles([threw |-> FALSE, value |-> acc], {})
            /\ UNCHANGED <<idx, calls>>
            /\ streams' = acc
       ELSE IF entries[j].kind = "null"
       THEN /\ CacheSettles(cacheCatch(acc), {})
            /\ UNCHANGED calls
            /\ idx' = j
            /\ streams' = acc
       ELSE /\ calls' = Append(calls, Call("unrestrict", entries[j].link))
            /\ pc' = "await_resolve"
            /\ idx' = j
            /\ streams' = acc
            /\ UNCHANGED <<hStreams, response, events>>

\* the batch query settles, lines 234-243
BatchReturn(o) ==
    /\ pc = "await_batch"
    /\ answers' = Append(answers, o)
    /\ data' = o.entries
    /\ UNCHANGED <<other, req, cfg, movieTitle, searchQuery, magnets, hashes, torrentId, fallbackStream, page>>
    /\ IF ~o.ok
       THEN /\ CacheSettles(cacheCatch(streams), {})
            /\ UNCHANGED <<idx, streams, calls>>
       ELSE CacheLoop(o.entries, 1, streams)

\* a resolve call settles, lines 247-260
ResolveReturn(o) ==
    /\ pc = "await_resolve"
    /\ answers' = Append(answers, o)
    /\ UNCHANGED <<other, req, cfg, movieTitle, searchQuery, magnets, hashes, data, torrentId,
                   fallbackStream, page>>
    /\ LET m == FindMagnet(magnets, data[idx].hash)
       IN IF ~o.ok \/ (m # 0 /\ ~o.hasData)
          THEN /\ CacheSettles(cacheCatch(streams), {})
               /\ UNCHANGED <<idx, streams, calls>>
          ELSE CacheLoop(data, idx + 1,
                         IF m # 0 THEN Append(streams, CachedStream(magnets[m], o.download))
                         ELSE streams)

\* addNonCachedTorrentToRealDebrid settles with r; a rejection would reach line 144
FallbackSettles(r, tags) ==
    /\ IF r.threw
       THEN response' = InternalError /\ pc' = "done" /\ fallbackStream' = fallbackStream
       ELSE response' = response /\ pc' = "ret_fallback" /\ fallbackStream' = r.value
    /\ events' = events \cup tags \cup {"ret_fallback"}

\* addNonCachedTorrentToRealDebrid up to its await, lines 272-282
FallbackEntry(mags) ==
    IF Len(mags) = 0
    THEN /\ FallbackSettles([threw |-> FALSE, value |-> <<>>], {"enter_fallback"})
         /\ calls' = calls
    ELSE /\ calls' = Append(calls, Call("addMagnet", mags[1].magnet))
         /\ pc' = "await_add"
         /\ events' = events \cup {"enter_fallback"}
         /\ UNCHANGED <<fallbackStream, response>>

\* lines 126-134 without the return of lines 126-129: the fallback is tried even when
\* cached streams were found
AfterCacheNoReturn ==
    /\ pc = "ret_cache"
    /\ UNCHANGED <<other, req, cfg, movieTitle, searchQuery, magnets, hashes, data, idx, streams,
                   hStreams, torrentId, page, answers>>
    /\ IF FallbackEnabled(cfg)
       THEN FallbackEntry(magnets)
       ELSE /\ response' = StreamsResponse(hStreams, <<>>)
            /\ pc' = "done"
            /\ UNCHANGED <<fallbackStream, calls, events>>

\* lines 126-134
AfterCache ==
    /\ pc = "ret_cache"
    /\ UNCHANGED <<other, req, cfg, movieTitle, searchQuery, magnets, hashes, data, idx, streams,
                   hStreams, torrentId, page, answers>>
    /\ IF Len(hStreams) > 0
       THEN /\ response' = StreamsResponse(hStreams, <<>>)
            /\ pc' = "done"
            /\ UNCHANGED <<fallbackStream, calls, events>>
       ELSE IF FallbackEnabled(cfg)
       THEN FallbackEntry(magnets)
       ELSE /\ response' = StreamsResponse(<<>>, <<>>)
            /\ pc' = "done"
            /\ UNCHANGED <<fallbackStream, calls, events>>

\* addMagnet settles, lines 284-296
AddReturn(o) ==
    /\ pc = "await_add"
    /\ answers' = Append(answers, o)
    /\ UNCHANGED <<other, req, cfg, movieTitle, searchQuery, magnets, hashes, data, idx, streams,
                   hStreams, page>>
    /\ IF ~o.ok \/ ~o.hasData
       THEN /\ FallbackSettles(fallbackCatch, {})
            /\ UNCHANGED <<torrentId, calls>>
       ELSE IF ~Truthy(o.id)
       THEN /\ FallbackSettles([threw |-> FALSE, value |-> <<>>], {})
            /\ UNCHANGED <<torrentId, calls>>
       ELSE /\ torrentId' = o.id.s
            /\ calls' = Append(calls, Call("selectFiles", o.id.s))
            /\ pc' = "await_select"
            /\ UNCHANGED <<fallbackStream, response, events>>

\* selectFiles settles, lines 292-307
SelectReturn(o) ==
    /\ pc = "await_select"
    /\ answers' = Append(answers, o)
    /\ UNCHANGED <<other, req, cfg, movieTitle, searchQuery, magnets, hashes, data, idx, streams,
                   hStreams, torrentId, page, calls>>
    /\ IF ~o.ok
       THEN FallbackSettles(fallbackCatch, {})
       ELSE FallbackSettles([threw |-> FALSE,
                             value |-> <<PlaceholderStream(magnets[1], torrentId)>>], {})

\* lines 135-142 without the final res.json of line 142: a null placeholder leaves the
\* request unanswered
AfterFallbackNoFinal ==
    /\ pc = "ret_fallback"
    /\ response' = IF fallbackStream # <<>> THEN StreamsResponse(fallbackStream, <<>>)
                   ELSE response
    /\ pc' = "done"
    /\ UNCHANGED <<other, req, cfg, movieTitle, searchQuery, magnets, hashes, data, idx, streams,
                   hStreams, torrentId, fallbackStream, page, calls, answers, events>>

\* lines 135-142
AfterFallback ==
    /\ pc = "ret_fallback"
    /\ response' = StreamsResponse(fallbackStream, <<>>)
    /\ pc' = "done"
    /\ UNCHANGED <<other, req, cfg, movieTitle, searchQuery, magnets, hashes, data, idx, streams,
                   hStreams, torrentId, fallbackStream, page, calls, answers, events>>

Next ==
    \/ \E t \in Types, i \in Ids, c \in Configs : Request(t, i, c)
    \/ \E o \in MetaOutcomes : MetaReturn(o)
    \/ \E o \in SearchOutcomes : SearchReturn(o)
    \/ AfterScrape
    \/ \E o \in BatchOutcomes : BatchReturn(o)
    \/ pc = "await_resolve" /\ \E o \in ResolveOutcomes(data[idx].link) : ResolveReturn(o)
    \/ AfterCache
    \/ \E o \in AddOutcomes : AddReturn(o)
    \/ \E o \in SelectOutcomes : SelectReturn(o)
    \/ AfterFallback

Spec == Init /\ [][Next]_vars

\* the pages of the runs checked for termination: a failed search, an empty page,
\* every page of one row, and the pages that end with the row of hash c after rows of
\* hash ab
LiveSearch ==
    {o \in SearchOutcomes :
        \/ Len(o.rows) <= 1
        \/ /\ RowMagnet(o.rows[Len(o.rows)]) = MagC
           /\ \A k \in 1..(Len(o.rows) - 1) : RowMagnet(o.rows[k]) = MagABdnC}

\* the steps of a request that has been received: an outstanding call settles, or the
\* code after an await that has settled runs on
Continue ==
    \/ \E o \in MetaOutcomes : MetaReturn(o)
    \/ \E o \in LiveSearch : SearchReturn(o)
    \/ AfterScrape
    \/ \E o \in BatchOutcomes : BatchReturn(o)
    \/ pc = "await_resolve" /\ \E o \in ResolveOutcomes(data[idx].link) : ResolveReturn(o)
    \/ AfterCache
    \/ \E o \in AddOutcomes : AddReturn(o)
    \/ \E o \in SelectOutcomes : SelectReturn(o)
    \/ AfterFallback

NextLive ==
    \/ \E t \in Types, i \in Ids, c \in Configs : Request(t, i, c)
    \/ Continue

\* every call that was issued returns or fails, and the event loop runs the
\* continuation of a settled await; nothing obliges a request to arrive
SpecLive == Init /\ [][NextLive]_vars /\ WF_vars(Continue)

----------------------------------------------------------------------------
(* The helpers called on their own *)

\* the candidates the result page can give rise to
Candidates ==
    {[title |-> RowTitle(r), magnet |-> RowMagnet(r)] : r \in {x \in Rows : RowMagnet(x) # <<>>}}

\* the values a preference of the configuration page can take: absent, "A", "a, B",
\* "c," and a number
PrefValues ==
    { Undef, Str(<<"A">>), Str(<<"a", ",", " ", "B">>), Str(<<"c", ",">>), Num(1080) }

\* scrapeBitsearch(query, quality, codec, audio, exclude) about to be called
InitScrape ==
    /\ pc = "call_scrape"
    /\ req = NoRequest
    /\ cfg \in {[NoPrefs EXCEPT !.quality = q, !.codec = c, !.audio = a, !.exclude = e] :
                    q \in PrefValues, c \in PrefValues, a \in PrefValues, e \in PrefValues}
    /\ movieTitle = <<"T">>
    /\ searchQuery = <<"T">>
    /\ magnets = <<>>
    /\ hashes = <<>>
    /\ data = <<>>
    /\ idx = 0
    /\ streams = <<>>
    /\ hStreams = <<>>
    /\ torrentId = <<>>
    /\ fallbackStream = <<>>
    /\ response = NoResponse
    /\ page = <<>>
    /\ calls = <<>>
    /\ answers = <<>>
    /\ events = {}
    /\ other = Fresh

ScrapeCall ==
    /\ pc = "call_scrape"
    /\ ScrapeEntry(searchQuery)
    /\ UNCHANGED <<other, req, cfg, movieTitle, searchQuery, magnets, hashes, data, idx, streams,
                   hStreams, torrentId, fallbackStream, response, page, answers, events>>

NextScrape ==
    \/ ScrapeCall
    \/ \E o \in SearchOutcomes : SearchReturn(o)

SpecScrape == InitScrape /\ [][NextScrape]_vars

\* addNonCachedTorrentToRealDebrid(magnets, realdebridKey) about to be called
InitFallback ==
    /\ pc = "call_fallback"
    /\ req = NoRequest
    /\ cfg \in {[NoPrefs EXCEPT !.realdebridKey = Str(k)] : k \in {<<"k">>, <<"K">>}}
    /\ movieTitle = <<>>
    /\ searchQuery = <<>>
    /\ magnets \in SeqsUpTo(Candidates, MaxRows)
    /\ hashes = <<>>
    /\ data = <<>>
    /\ idx = 0
    /\ streams = <<>>
    /\ hStreams = <<>>
    /\ torrentId = <<>>
    /\ fallbackStream = <<>>
    /\ response = NoResponse
    /\ page = <<>>
    /\ calls = <<>>
    /\ answers = <<>>
    /\ events = {}
    /\ other = Fresh

FallbackCall ==
    /\ pc = "call_fallback"
    /\ FallbackEntry(magnets)
    /\ UNCHANGED <<other, req, cfg, movieTitle, searchQuery, magnets, hashes, data, idx, streams,
                   hStreams, torrentId, page, answers>>

NextFallback ==
    \/ FallbackCall
    \/ \E o \in AddOutcomes : AddReturn(o)
    \/ \E o \in SelectOutcomes : SelectReturn(o)

SpecFallback == InitFallback /\ [][NextFallback]_vars

\* The handler up to the search call, for ids of every shape: no season, a season
\* without an episode, an empty season, an empty episode, and seasons and episodes of
\* one, two and three characters
QueryIds ==
    { <<"tt1">>,
      <<"tt1", ":", "1">>,
      <<"tt1", ":", ":", "2">>,
      <<"tt1", ":", "1", ":">>,
      <<"tt1", ":", "1", ":", "1">>,
      <<"tt1", ":", "1", ":", "1", "2">>,
      <<"tt1", ":", "1", "0", ":", "2">>,
      <<"tt1", ":", "1", "0", "2", ":", "1", "0">> }

NextQuery ==
    \/ \E t \in Types, i \in QueryIds, c \in Configs : Request(t, i, c)
    \/ \E o \in MetaOutcomes : MetaReturn(o)

SpecQuery == Init /\ [][NextQuery]_vars

----------------------------------------------------------------------------
(* Two requests in flight.  Every local of the handler and of the helpers is  *)
(* declared inside its function (lines 83-142, 173, 220, 284): a request that *)
(* is resumed after an await finds its own locals.  The variables above hold  *)
(* the locals of the request whose code runs; `other` holds those of the      *)
(* request that is suspended meanwhile.                                       *)

\* the locals of the running request
Context ==
    [pc |-> pc, req |-> req, cfg |-> cfg, movieTitle |-> movieTitle,
     searchQuery |-> searchQuery, magnets |-> magnets, hashes |-> hashes, data |-> data,
     idx |-> idx, streams |-> streams, hStreams |-> hStreams, torrentId |-> torrentId,
     fallbackStream |-> fallbackStream, response |-> response, page |-> page,
     calls |-> calls, answers |-> answers, events |-> events]

\* lines 173 and 220 with `magnets` and `streams` declared at module level: a request
\* that is resumed finds the two arrays as the other request left them
ResumeSharedArrays(mine, theirs) ==
    [mine EXCEPT !.magnets = theirs.magnets, !.streams = theirs.streams]

\* what a request finds when the event loop resumes it: its own locals
Resume(mine, theirs) == mine

\* the event loop turns to the other request: the running one stays suspended at its
\* await (or has not been received yet, or is finished)
Switch ==
    LET mine == Resume(other, Context)
    IN /\ other' = Context
       /\ pc' = mine.pc
       /\ req' = mine.req
       /\ cfg' = mine.cfg
       /\ movieTitle' = mine.movieTitle
       /\ searchQuery' = mine.searchQuery
       /\ magnets' = mine.magnets
       /\ hashes' = mine.hashes
       /\ data' = mine.data
       /\ idx' = mine.idx
       /\ streams' = mine.streams
       /\ hStreams' = mine.hStreams
       /\ torrentId' = mine.torrentId
       /\ fallbackStream' = mine.fallbackStream
       /\ response' = mine.response
       /\ page' = mine.page
       /\ calls' = mine.calls
       /\ answers' = mine.answers
       /\ events' = mine.events

\* the requests and answers of the two-request runs: movie requests with a credential,
\* one with the fallback on and one that excludes "b"; a title; a page of the rows of
\* hash ab and of hash c, or of the latter alone; a batch answer of cached entries
ConcConfigs ==
    { Obj(Str(<<"k">>), Bool(TRUE), Undef, Undef),
      Obj(Str(<<"k">>), Str(<<"false">>), Undef, Str(<<"b">>)) }

ConcMeta == {o \in MetaOutcomes : Truthy(o.name)}

ConcSearch ==
    {o \in SearchOutcomes :
        /\ o.rows # <<>>
        /\ RowMagnet(o.rows[Len(o.rows)]) = MagC
        /\ \A k \in 1..(Len(o.rows) - 1) : RowMagnet(o.rows[k]) = MagABdnC}

ConcBatch ==
    {o \in BatchOutcomes :
        /\ o.ok
        /\ \A k \in 1..Len(o.entries) : o.entries[k].kind = "cached"
        /\ Len(o.entries) > 1 => o.entries[1].hash = <<"a", "b">>}

ConcResolve(link) == {o \in ResolveOutcomes(link) : o.ok = o.hasData}

ConcAdd == {o \in AddOutcomes : o.ok = Truthy(o.id)}

NextConc ==
    \/ \E c \in ConcConfigs : Request("movie", <<"tt1">>, c)
    \/ \E o \in ConcMeta : MetaReturn(o)
    \/ \E o \in ConcSearch : SearchReturn(o)
    \/ AfterScrape
    \/ \E o \in ConcBatch : BatchReturn(o)
    \/ pc = "await_resolve" /\ \E o \in ConcResolve(data[idx].link) : ResolveReturn(o)
    \/ AfterCache
    \/ \E o \in ConcAdd : AddReturn(o)
    \/ \E o \in SelectOutcomes : SelectReturn(o)
    \/ AfterFallback
    \/ Switch

SpecConc == Init /\ [][NextConc]_vars

----------------------------------------------------------------------------
(* Properties *)

\* the positions in `calls` of the calls to one service
CallsTo(svc) == {i \in 1..Len(calls) : calls[i].svc = svc}

\* call i has settled
Answered(i) == i <= Len(answers)

DebridServices == {"instantAvailability", "unrestrict", "addMagnet", "selectFiles"}

\* the k-th smallest element of a set of numbers
Kth(S, k) == CHOOSE i \in S : Cardinality({j \in S : j < i}) = k - 1

\* C1: whatever the type, id and encoded configuration are and whatever the external
\* calls answer, the response carries a list of StreamResults (status 200, a streams
\* field) and is never the internal-fault response.
C1_AlwaysStreamList == response.sent => (response.status = 200 /\ response.hasStreams)

\* the configuration decodes without a credential: realdebridKey absent or empty
NoCredentialRequest ==
    /\ req.config.json \in {"object", "scalar"}
    /\ req.config.o.realdebridKey.t = "undefined"
       \/ (req.config.o.realdebridKey.t = "string" /\ req.config.o.realdebridKey.s = <<>>)

\* C2: a request whose decoded configuration has no credential is answered with an
\* empty stream list and an explanatory marker, and no external call is issued for it.
C2_NoCredentialNoCalls ==
    NoCredentialRequest =>
        /\ calls = <<>>
        /\ response.sent /\ response.status = 200 /\ response.hasStreams
        /\ response.streams = <<>>
        /\ response.error # <<>>

\* a movie request with an empty-string credential and fallback on has been answered
C2_Witness ==
    /\ pc = "done"
    /\ req.type = "movie"
    /\ req.config.json = "object"
    /\ req.config.o.realdebridKey.t = "string"
    /\ req.config.o.realdebridKey.s = <<>>
    /\ req.config.o.fallback.b

\* C3: addNonCachedTorrentToRealDebrid is entered only after checkRealDebridCache has
\* returned an empty list and only if the configuration's fallback is 'true' or true;
\* and the magnet it submits is that of candidates[0].
C3_FallbackOnlyWhenEmptyAndEnabled ==
    /\ "enter_fallback" \in events =>
          /\ "ret_cache" \in events
          /\ hStreams = <<>>
          /\ \/ req.config.o.fallback.t = "string" /\ req.config.o.fallback.s = <<"true">>
             \/ req.config.o.fallback.t = "boolean" /\ req.config.o.fallback.b
    /\ \A i \in CallsTo("addMagnet") :
          /\ "enter_fallback" \in events
          /\ magnets # <<>>
          /\ calls[i].arg = magnets[1].magnet

\* the fallback has submitted the first of two different candidates
C3_Witness ==
    /\ "enter_fallback" \in events
    /\ Len(magnets) = 2
    /\ magnets[1].magnet # magnets[2].magnet
    /\ CallsTo("addMagnet") # {}

\* the candidates have different hashes, the batch query and every resolve call have
\* succeeded with a well-formed answer, the service has reported only hashes it was
\* asked about, and checkRealDebridCache has returned
C4_AllSucceeded ==
    /\ "ret_cache" \in events
    /\ Len(hashes) = Len(magnets)
    /\ \A h, k \in 1..Len(hashes) : hashes[h] = hashes[k] => h = k
    /\ \E i \in CallsTo("instantAvailability") :
          /\ Answered(i) /\ answers[i].ok
          /\ \A k \in 1..Len(answers[i].entries) :
                /\ answers[i].entries[k].kind # "null"
                /\ \E h \in 1..Len(hashes) : hashes[h] = answers[i].entries[k].hash
    /\ \A i \in CallsTo("unrestrict") : Answered(i) /\ answers[i].ok /\ answers[i].hasData

\* the StreamResults the claim asks for one reported entry: one per candidate whose
\* hash is the reported one, titled after that candidate, with the entry's resolved URL
C4_StreamsFor(e, mags) ==
    LET Same(m) == ExtractHash(m.magnet) = e.hash
        sel == SelectSeq(mags, Same)
    IN [i \in 1..Len(sel) |->
            [title |-> <<"RD Cached: ">> \o sel[i].title, url |-> <<"https:">> \o e.link]]

RECURSIVE C4_Expected(_, _)
C4_Expected(entries, mags) ==
    IF entries = <<>> THEN <<>>
    ELSE (IF Head(entries).kind = "cached" THEN C4_StreamsFor(Head(entries), mags) ELSE <<>>)
         \o C4_Expected(Tail(entries), mags)

\* C4: when the batch query and all resolve calls succeed, checkRealDebridCache returns
\* exactly one StreamResult for every candidate whose hash the service reports as
\* cached, titled "RD Cached: " + that candidate's title, with the resolved URL, in the
\* order the service reported the hashes; entries with an empty cache yield nothing.
C4_OnePerCachedCandidate == C4_AllSucceeded => hStreams = C4_Expected(data, magnets)

\* the search has succeeded and every preference is absent, empty or a string
C5_ListsBuilt ==
    /\ pc = "ret_scrape"
    /\ answers[Len(answers)].ok
    /\ \A p \in {cfg.quality, cfg.codec, cfg.audio, cfg.exclude} : p.t \in {"undefined", "string"}

\* some term of the list occurs in the lower-cased title
C5_HasTerm(list, row) == \E k \in 1..Len(list) : Includes(ToLowerCase(RowTitle(row)), list[k])

\* the row exposes a magnet-scheme link and its title passes the four lists
C5_Kept(row) ==
    /\ \E a \in 1..Len(row) : row[a].href # <<>> /\ row[a].href[1] = "magnet:"
    /\ TermList(cfg.quality) = <<>> \/ C5_HasTerm(TermList(cfg.quality), row)
    /\ TermList(cfg.codec) = <<>> \/ C5_HasTerm(TermList(cfg.codec), row)
    /\ TermList(cfg.audio) = <<>> \/ C5_HasTerm(TermList(cfg.audio), row)
    /\ ~C5_HasTerm(TermList(cfg.exclude), row)

\* C5: the list scrapeBitsearch returns is exactly the subsequence, in row order, of the
\* rows that expose a magnet link and whose lower-cased title contains a term of each
\* non-empty include list and no exclude term; rows without a magnet link never appear.
C5_ScrapeIsFilteredSubsequence ==
    C5_ListsBuilt =>
        LET kept == {i \in 1..Len(page) : C5_Kept(page[i])}
        IN /\ Len(magnets) = Cardinality(kept)
           /\ \A k \in 1..Len(magnets) :
                 /\ magnets[k].title = RowTitle(page[Kth(kept, k)])
                 /\ magnets[k].magnet = RowMagnet(page[Kth(kept, k)])
                 /\ magnets[k].magnet[1] = "magnet:"

\* a page of one row kept and one magnet row rejected by a non-empty quality list
C5_Witness ==
    /\ C5_ListsBuilt
    /\ Len(page) = 2
    /\ Len(magnets) = 1
    /\ TermList(cfg.quality) # <<>>
    /\ \A i \in 1..2 : RowMagnet(page[i]) # <<>>

\* the hashes of the candidates that have one, in candidate order
C6_Hashes ==
    LET Has(m) == ExtractHash(m.magnet) # <<>>
        sel == SelectSeq(magnets, Has)
    IN [i \in 1..Len(sel) |-> ExtractHash(sel[i].magnet)]

\* C6: the batch query carries the hashes of exactly the candidates that have an
\* xt=urn:btih:<hash> token; and if no candidate has one, checkRealDebridCache returns
\* an empty list without a call to the availability or the resolve endpoint.
C6_HashlessExcluded ==
    /\ \A i \in CallsTo("instantAvailability") : calls[i].arg = Join(C6_Hashes, "/")
    /\ ("enter_cache" \in events /\ C6_Hashes = <<>>) =>
          /\ "ret_cache" \in events
          /\ hStreams = <<>>
          /\ CallsTo("instantAvailability") = {} /\ CallsTo("unrestrict") = {}

\* the batch query went out for two candidates of which one has no hash
C6_Witness ==
    /\ CallsTo("instantAvailability") # {}
    /\ Len(magnets) = 2
    /\ \E k \in 1..2 : ExtractHash(magnets[k].magnet) = <<>>

\* the add-torrent call succeeded with a job id and the select-files call succeeded
C7_Accepted ==
    /\ Len(magnets) > 0
    /\ \E i \in CallsTo("addMagnet") :
          Answered(i) /\ answers[i].ok /\ answers[i].hasData /\ Truthy(answers[i].id)
    /\ \E j \in CallsTo("selectFiles") : Answered(j) /\ answers[j].ok

\* C7: addNonCachedTorrentToRealDebrid never raises; it returns one placeholder whose
\* URL is "magnet:?xt=urn:btih:" + the job id iff the list is non-empty, add-torrent
\* succeeded with a job id and select-files succeeded, and null in every other case.
C7_PlaceholderIffAccepted ==
    /\ response.status # 500
    /\ "ret_fallback" \in events =>
          IF C7_Accepted
          THEN /\ Len(fallbackStream) = 1
               /\ \E i \in CallsTo("addMagnet") :
                     fallbackStream[1].url = <<"magnet:", "?", "xt=urn:btih:">> \o answers[i].id.s
               /\ fallbackStream[1].title = <<"[RD - Downloading]: ">> \o magnets[1].title
          ELSE fallbackStream = <<>>

\* the helper has returned a placeholder for the first of two candidates
C7_Witness ==
    /\ "ret_fallback" \in events
    /\ Len(magnets) = 2
    /\ fallbackStream # <<>>

\* C8: when the search returns zero candidates, neither debrid helper is entered, no
\* debrid call is issued, and the response is an empty stream list, whatever the
\* fallback setting.
C8_NoCandidatesNoDebrid ==
    ((\E i \in CallsTo("bitsearch") : Answered(i)) /\ magnets = <<>>) =>
        /\ \A i \in 1..Len(calls) : calls[i].svc \notin DebridServices
        /\ "enter_cache" \notin events /\ "enter_fallback" \notin events
        /\ pc \in {"ret_scrape", "done"}
        /\ pc = "done" => response = StreamsResponse(<<>>, <<>>)

\* a non-empty page was filtered down to nothing, with fallback on, and answered
C8_Witness ==
    /\ pc = "done"
    /\ \E i \in CallsTo("bitsearch") : Answered(i) /\ answers[i].ok /\ answers[i].rows # <<>>
    /\ magnets = <<>>
    /\ req.config.o.fallback.t = "boolean" /\ req.config.o.fallback.b
    /\ req.config.o.realdebridKey.s # <<>>

\* C9: getTitleFromImdbId returns '' on a failure or a missing title, and the handler
\* issues no search of the index with an empty title.
C9_EmptyTitleNoSearch ==
    /\ \A i \in CallsTo("cinemeta") :
          (Answered(i) /\ (~answers[i].ok \/ ~Truthy(answers[i].name))) => movieTitle = <<>>
    /\ \A i \in CallsTo("bitsearch") : movieTitle # <<>>

\* the configuration decodes to an object with a credential
C10_ValidRequest ==
    /\ req.config.json = "object"
    /\ req.config.o.realdebridKey.t = "string" /\ req.config.o.realdebridKey.s # <<>>

\* a settled call to the service failed: a network failure, or an add-torrent answer
\* without data
C10_Failed(svc) ==
    \E i \in CallsTo(svc) :
        /\ Answered(i)
        /\ \/ ~answers[i].ok
           \/ svc = "addMagnet" /\ ~answers[i].hasData

\* C10: with a valid configuration and credential, a failure of an external call never
\* leads to the internal-fault response: the failing stage counts as no title, no
\* candidates, no (further) hits or no placeholder, and the response is the stream list
\* of what was obtained.
C10_FailuresIsolated ==
    C10_ValidRequest =>
        /\ response.sent => (response.status = 200 /\ response.hasStreams)
        /\ C10_Failed("cinemeta") => movieTitle = <<>>
        /\ C10_Failed("bitsearch") => magnets = <<>>
        /\ C10_Failed("instantAvailability") => ("ret_cache" \in events /\ hStreams = <<>>)
        /\ C10_Failed("unrestrict") =>
              /\ "ret_cache" \in events
              /\ Len(hStreams) <
                    Cardinality({i \in CallsTo("unrestrict") : Answered(i)})
        /\ (C10_Failed("addMagnet") \/ C10_Failed("selectFiles")) =>
              ("ret_fallback" \in events /\ fallbackStream = <<>>)
        /\ (pc = "done" /\ "ret_cache" \in events) =>
              response.streams = (IF hStreams # <<>> THEN hStreams ELSE fallbackStream)

\* one hit was resolved, the resolve call of the next one failed, and the response
\* carries the first
C10_Witness ==
    /\ C10_ValidRequest
    /\ pc = "done"
    /\ C10_Failed("unrestrict")
    /\ Len(response.streams) = 1


\* the batch query succeeded with well-formed entries for hashes it was asked about,
\* and checkRealDebridCache has returned
C11_BatchAnswered ==
    /\ "ret_cache" \in events
    /\ \E i \in CallsTo("instantAvailability") : Answered(i) /\ answers[i].ok
    /\ \A k \in 1..Len(data) :
          /\ data[k].kind # "null"
          /\ \E h \in 1..Len(hashes) : hashes[h] = data[k].hash

\* the resolve call for the link failed: a network failure or an answer without data
C11_ResolveFailed(link) ==
    \E i \in CallsTo("unrestrict") :
        /\ calls[i].arg = link
        /\ Answered(i)
        /\ ~answers[i].ok \/ ~answers[i].hasData

\* C11: in checkRealDebridCache a failed resolve call removes only the contribution of
\* its own hit: every other cached hit that has a candidate, reported before or after
\* the failing one, still has its StreamResult in the returned list, and the function
\* does not raise.
C11_ResolveFailureIsolated ==
    (C10_ValidRequest /\ C11_BatchAnswered) =>
        /\ response.status # 500
        /\ \A k \in 1..Len(data) :
              (/\ data[k].kind = "cached"
               /\ FindMagnet(magnets, data[k].hash) # 0
               /\ ~C11_ResolveFailed(data[k].link)) =>
                  \E s \in 1..Len(hStreams) : hStreams[s].url = <<"https:">> \o data[k].link


\* a value left-padded with '0' to two characters; longer values stay as they are
C12_TwoDigits(s) == IF Len(s) = 1 THEN <<"0">> \o s ELSE s

\* C12: the search query is built once per request from the resolved title: for a
\* movie it is the title; for a series with a season and an episode it is
\* "<title> S<ss>E<ee>", season and episode left-padded with '0' to at least two
\* characters ("1", "1" gives "S01E01"; values of two or more characters are unchanged).
C12_QueryBuilt ==
    /\ Cardinality(CallsTo("bitsearch")) <= 1
    /\ \A i \in CallsTo("bitsearch") :
          LET parts == Split(req.id, ":")
          IN /\ calls[i].arg = searchQuery
             /\ req.type = "movie" => searchQuery = movieTitle
             /\ req.type = "series" =>
                   /\ Len(parts) >= 3
                   /\ searchQuery = movieTitle \o <<" ", "S">> \o C12_TwoDigits(parts[2])
                                         \o <<"E">> \o C12_TwoDigits(parts[3])
             /\ (req.type = "series" /\ parts[2] = <<"1">> /\ parts[3] = <<"1">>) =>
                   searchQuery = movieTitle \o <<" ", "S", "0", "1", "E", "0", "1">>

\* the search went out for episode "12" of season "1" of a title that was found
C12_Witness ==
    /\ pc = "await_search"
    /\ req.type = "series"
    /\ req.id = <<"tt1", ":", "1", ":", "1", "2">>
    /\ movieTitle # <<>>
    /\ searchQuery = movieTitle \o <<" ", "S", "0", "1", "E", "1", "2">>


\* the request carries a credential, and its type is neither movie nor series or it
\* is a series whose id has no season or no episode
C17_Unsupported ==
    /\ C10_ValidRequest
    /\ \/ req.type \notin {"movie", "series"}
       \/ /\ req.type = "series"
          /\ LET parts == Split(req.id, ":")
             IN Len(parts) < 3 \/ parts[2] = <<>> \/ parts[3] = <<>>

\* C17: a request with a credential whose type is neither movie nor series, or whose
\* type is series with an id lacking the season or the episode, is answered with an
\* empty stream list and no external call is issued for it, not even the title lookup.
C17_UnsupportedNoCalls ==
    C17_Unsupported =>
        /\ calls = <<>>
        /\ pc = "done"
        /\ response = StreamsResponse(<<>>, <<>>)

\* a series request with a credential and a season but no episode has been answered
C17_Witness ==
    /\ C10_ValidRequest
    /\ pc = "done"
    /\ req.type = "series"
    /\ req.id = <<"tt1", ":", "1">>


\* the stage of the chain a service belongs to
C13_Stage(svc) ==
    CASE svc = "cinemeta" -> 1
      [] svc = "bitsearch" -> 2
      [] svc = "instantAvailability" -> 3
      [] svc = "unrestrict" -> 4
      [] svc = "addMagnet" -> 5
      [] svc = "selectFiles" -> 6

\* C13: a request is one sequential chain of external calls: at most one call is
\* outstanding, the calls come in the order metadata lookup, index search, batch cache
\* query, resolve calls (one per cached hit, in report order), add-torrent,
\* select-files, each stage but the resolve calls once at most, and select-files is
\* issued only after the add-torrent call has returned a job id, for that job.
C13_SequentialChain ==
    /\ Len(answers) <= Len(calls) /\ Len(calls) <= Len(answers) + 1
    /\ calls # <<>> => calls[1].svc = "cinemeta"
    /\ \A i, j \in 1..Len(calls) :
          i < j => /\ C13_Stage(calls[i].svc) <= C13_Stage(calls[j].svc)
                   /\ C13_Stage(calls[i].svc) = C13_Stage(calls[j].svc) =>
                         calls[i].svc = "unrestrict"
    /\ LET cached == {k \in 1..Len(data) : data[k].kind = "cached"}
           res == CallsTo("unrestrict")
       IN /\ Cardinality(res) <= Cardinality(cached)
          /\ \A k \in 1..Cardinality(res) : calls[Kth(res, k)].arg = data[Kth(cached, k)].link
    /\ \A i \in CallsTo("selectFiles") :
          /\ i > 1 /\ calls[i - 1].svc = "addMagnet"
          /\ answers[i - 1].ok /\ answers[i - 1].hasData /\ Truthy(answers[i - 1].id)
          /\ calls[i].arg = answers[i - 1].id.s

\* a request went through every stage, with two resolve calls, and was answered
C13_Witness ==
    /\ pc = "done"
    /\ Cardinality(CallsTo("unrestrict")) = 2
    /\ CallsTo("selectFiles") # {}
    /\ Len(answers) = Len(calls)


\* C15: the stream list of a response is homogeneous: it is empty, or it holds only
\* cache hits (titles starting "RD Cached: "), or it is exactly one placeholder (title
\* starting "[RD - Downloading]: ", URL of the magnet scheme); and no add-torrent call
\* is issued in a request that produced a cached result.
C15_Homogeneous ==
    /\ (response.sent /\ response.hasStreams) =>
          LET s == response.streams
          IN \/ s = <<>>
             \/ \A k \in 1..Len(s) : Head(s[k].title) = "RD Cached: "
             \/ /\ Len(s) = 1
                /\ Head(s[1].title) = "[RD - Downloading]: "
                /\ Head(s[1].url) = "magnet:"
    /\ (streams # <<>> \/ hStreams # <<>>) => CallsTo("addMagnet") = {}

\* two cached results were returned to a request that has the fallback on
C15_Witness ==
    /\ pc = "done"
    /\ Len(response.streams) = 2
    /\ Len(hStreams) = 2
    /\ req.config.o.fallback.t = "boolean" /\ req.config.o.fallback.b


\* C16: provided every issued call returns or fails, a request that was received is
\* eventually answered, and it is answered exactly once: the handler does not end
\* without a response, and a response that was sent is never followed by another.
C16_ExactlyOneResponse ==
    /\ (pc # "idle") ~> response.sent
    /\ [](pc = "done" => response.sent)
    /\ [][response.sent => (response' = response /\ pc' = "done")]_vars

\* a request was answered after the last call of the chain, select-files, had failed
C16_Witness ==
    /\ pc = "done"
    /\ response.sent
    /\ \E i \in CallsTo("selectFiles") : Answered(i) /\ ~answers[i].ok


\* the candidate list a request gets when it runs alone: that of its own search answer
\* under its own preferences
C14_AloneMagnets(c) ==
    IF Len(c.answers) >= 2
    THEN scrapeBitsearch(c.answers[2], c.cfg.quality, c.cfg.codec, c.cfg.audio,
                         c.cfg.exclude).value
    ELSE <<>>

\* the cached results a request running alone has collected from the entries, given
\* the resolve answers it has received so far
RECURSIVE C14_AloneLoop(_, _, _, _, _)
C14_AloneLoop(entries, from, acc, resolved, mags) ==
    LET j == NextStop(entries, from)
    IN IF j = 0 \/ resolved = <<>> THEN acc
       ELSE IF entries[j].kind = "null" THEN acc
       ELSE LET o == Head(resolved)
                m == FindMagnet(mags, entries[j].hash)
            IN IF ~o.ok \/ (m # 0 /\ ~o.hasData) THEN acc
               ELSE C14_AloneLoop(entries, j + 1,
                                  IF m # 0 THEN Append(acc, CachedStream(mags[m], o.download))
                                  ELSE acc,
                                  Tail(resolved), mags)

\* the same, from the request's own batch answer (its third call)
C14_AloneStreams(c) ==
    IF Len(c.answers) >= 3 /\ c.answers[3].ok
    THEN LET last == Cardinality({i \in 1..Len(c.answers) : c.calls[i].svc = "unrestrict"})
         IN C14_AloneLoop(c.answers[3].entries, 1, <<>>, SubSeq(c.answers, 4, 3 + last),
                          C14_AloneMagnets(c))
    ELSE <<>>

\* the request's candidates, cached results and response are those of a run alone with
\* the answers its own calls received
C14_AsAlone(c) ==
    /\ c.magnets = C14_AloneMagnets(c)
    /\ c.streams = C14_AloneStreams(c)
    /\ "ret_cache" \in c.events => c.hStreams = C14_AloneStreams(c)
    /\ Len(c.fallbackStream) <= 1
    /\ \A k \in 1..Len(c.fallbackStream) :
          /\ c.fallbackStream[k].title = DownloadingPrefix \o C14_AloneMagnets(c)[1].title
          /\ c.fallbackStream[k].url = MagnetScheme \o <<Btih>> \o c.answers[Len(c.answers) - 1].id.s
    /\ (c.pc = "done" /\ "ret_cache" \in c.events) =>
          c.response = StreamsResponse(IF C14_AloneStreams(c) # <<>> THEN C14_AloneStreams(c)
                                       ELSE c.fallbackStream, <<>>)

\* C14: requests in flight at the same time share no mutable state: under every
\* interleaving of two requests, the candidate list, the stream list and the response
\* of each are the ones it gets when it runs alone against the same answers.
C14_NoSharedState == C14_AsAlone(Context) /\ C14_AsAlone(other)

\* two requests are in flight, one awaiting a resolve call with a cached result
\* collected, the other awaiting select-files, and their candidate lists differ
C14_Witness ==
    /\ pc = "await_resolve"
    /\ streams # <<>>
    /\ other.pc = "await_select"
    /\ magnets # <<>> /\ other.magnets # <<>>
    /\ magnets # other.magnets

=============================================================================
